---- MODULE Spec2Model ----
(***************************************************************************)
(* SafeCircle Payment API (server.js): the two POST handlers               *)
(*   /create-mobile-money-payment   (InitiatePayment)                      *)
(*   /verify-mobile-money-payment   (VerifyPayment)                        *)
(* and the Express error handler, as a state machine.  A handler runs      *)
(* without interruption up to its next await; each await is a point where  *)
(* other requests may run and where the provider (or the network) decides  *)
(* how the handler continues.                                              *)
(*                                                                         *)
(* A JavaScript value is a record with a "type" field.  A string is a      *)
(* sequence of characters; text that the code never looks into (messages,  *)
(* identifiers, media types) is written as a sequence of longer tokens.    *)
(***************************************************************************)
EXTENDS Integers, Sequences, FiniteSets

VARIABLES
    MONEYUNIFY_AUTH_ID, \* process.env.MONEYUNIFY_AUTH_ID, read once at startup
    NODE_ENV,           \* process.env.NODE_ENV
    pc,                 \* per request: where its handler stands
    endpoint,           \* per request: which route it came in on
    body,               \* per request: req.body (or the unparsable-body marker)
    response,           \* per request: the provider's Response object, once fetch resolved
    sent,               \* per request: the replies written to the caller, in order
    caught,             \* per request: the messages of the exceptions its catch block saw
    trace,              \* per request: the order of its call / settle / respond events
    calls               \* every outbound call issued to the provider, in order

vars == <<MONEYUNIFY_AUTH_ID, NODE_ENV, pc, endpoint, body, response, sent,
          caught, trace, calls>>

----------------------------------------------------------------------------
(* Bounds of the model *)

MaxStrLen == 11      \* longest from_payer string tried
MaxAmountLen == 2    \* longest generated amount string tried
MaxRequests == 2     \* concurrent requests in SpecConcurrent

(* \d{10} of the phone-number pattern *)
PhoneLen == 10

----------------------------------------------------------------------------
(* JavaScript values *)

UNDEFINED == [type |-> "undefined"]
NULL == [type |-> "null"]
S(chars) == [type |-> "string", chars |-> chars]
\* a JSON number, held as its canonical decimal rendering (what String(n) gives)
N(chars) == [type |-> "number", chars |-> chars]
B(b) == [type |-> "boolean", val |-> b]
\* a one-element array
A(elem) == [type |-> "array", elem |-> elem]

DigitSeq == <<"0", "1", "2", "3", "4", "5", "6", "7", "8", "9">>
Digits == {DigitSeq[i] : i \in 1..10}
WhiteSpace == {" "}

\* JavaScript truthiness (ToBoolean)
Truthy(v) ==
    CASE v.type \in {"undefined", "null"} -> FALSE
      [] v.type = "string" -> v.chars # <<>>
      [] v.type = "number" -> v.chars \notin {<<"0">>, <<"-", "0">>}
      [] v.type = "boolean" -> v.val
      [] OTHER -> TRUE

\* JavaScript ToString
JsToString(v) ==
    CASE v.type = "string" -> v.chars
      [] v.type = "number" -> v.chars
      [] v.type = "boolean" -> IF v.val THEN <<"t", "r", "u", "e">>
                                        ELSE <<"f", "a", "l", "s", "e">>
      [] v.type = "array" ->
            IF v.elem.type \in {"string", "number"} THEN v.elem.chars ELSE <<>>
      [] v.type = "null" -> <<"n", "u", "l", "l">>
      [] v.type = "undefined" ->
            <<"u", "n", "d", "e", "f", "i", "n", "e", "d">>
      [] OTHER -> <<"[object Object]">>

\* v.substring exists only on strings
HasSubstring(v) == v.type = "string"

\* reading a property of null or undefined throws a TypeError
CanReadProps(v) == v.type \notin {"undefined", "null"}

\* v.p : undefined on anything that is not an object holding p
GetProp(v, p) == IF v.type = "object" THEN v[p] ELSE UNDEFINED

\* String.prototype.includes
Includes(hay, needle) ==
    \E i \in 1..(Len(hay) - Len(needle) + 1) :
        SubSeq(hay, i, i + Len(needle) - 1) = needle

----------------------------------------------------------------------------
(* Input validation *)

\* /^\d{10}$/.test(x): x is converted to a string; the whole string is
\* exactly ten decimal digits ($ without the m flag matches at the end only)
PhoneRegexTest(x) ==
    LET s == JsToString(x)
    IN  /\ Len(s) = PhoneLen
        /\ \A i \in 1..Len(s) : s[i] \in Digits

RECURSIVE TrimStart(_)
TrimStart(s) ==
    IF s # <<>> /\ Head(s) \in WhiteSpace THEN TrimStart(Tail(s)) ELSE s

\* the longest prefix of s made of decimal digits
DigitRun(s) ==
    LET n == CHOOSE k \in 0..Len(s) :
                 /\ \A i \in 1..k : s[i] \in Digits
                 /\ (k = Len(s) \/ s[k + 1] \notin Digits)
    IN  SubSeq(s, 1, n)

DigitVal(c) == (CHOOSE i \in 1..10 : DigitSeq[i] = c) - 1

RECURSIVE DigitsValue(_)
DigitsValue(ds) ==
    IF ds = <<>> THEN 0
    ELSE DigitsValue(SubSeq(ds, 1, Len(ds) - 1)) * 10 + DigitVal(ds[Len(ds)])

RECURSIVE Pow10(_)
Pow10(k) == IF k = 0 THEN 1 ELSE 10 * Pow10(k - 1)

NaN == [nan |-> TRUE, neg |-> FALSE, num |-> 0, scale |-> 0]

\* a finite number  (-1)^neg * num / 10^scale, trailing zeros of the fraction dropped
RECURSIVE Decimal(_, _, _)
Decimal(neg, num, scale) ==
    IF scale > 0 /\ num % 10 = 0 THEN Decimal(neg, num \div 10, scale - 1)
    ELSE [nan |-> FALSE, neg |-> neg, num |-> num, scale |-> scale]

\* parseFloat(v): v is converted to a string, leading white space is skipped,
\* and the longest prefix  [+-]? digits* ( . digits* )?  with at least one digit
\* is read as a decimal; whatever follows is ignored; no digit at all gives NaN.
\* (Exponents and "Infinity" are not read: no input of the model holds them.)
ParseFloat(v) ==
    LET s0 == TrimStart(JsToString(v))
        hasSign == s0 # <<>> /\ Head(s0) \in {"+", "-"}
        neg == s0 # <<>> /\ Head(s0) = "-"
        s1 == IF hasSign THEN Tail(s0) ELSE s0
        ip == DigitRun(s1)
        s2 == SubSeq(s1, Len(ip) + 1, Len(s1))
        hasDot == s2 # <<>> /\ Head(s2) = "."
        fp == IF hasDot THEN DigitRun(Tail(s2)) ELSE <<>>
    IN  IF ip = <<>> /\ fp = <<>> THEN NaN
        ELSE Decimal(neg, DigitsValue(ip \o fp), Len(fp))

IsNaN(x) == x.nan

\* x <= 0 for a number x (false for NaN)
LeqZero(x) == ~x.nan /\ (x.neg \/ x.num = 0)

\* isNaN(parsedAmount) || parsedAmount <= 0
AmountRejected(parsedAmount) == IsNaN(parsedAmount) \/ LeqZero(parsedAmount)

RECURSIVE IntToChars(_)
IntToChars(n) ==
    IF n < 10 THEN <<DigitSeq[n + 1]>>
    ELSE IntToChars(n \div 10) \o <<DigitSeq[(n % 10) + 1]>>

\* the digits of n, left-padded with zeros to width w
RECURSIVE PadChars(_, _)
PadChars(n, w) ==
    IF w = 0 THEN <<>>
    ELSE PadChars(n \div 10, w - 1) \o <<DigitSeq[(n % 10) + 1]>>

\* Number.prototype.toString for the decimals of the model
NumberToString(x) ==
    IF x.nan THEN <<"N", "a", "N">>
    ELSE (IF x.neg /\ x.num # 0 THEN <<"-">> ELSE <<>>)
         \o IntToChars(x.num \div Pow10(x.scale))
         \o (IF x.scale > 0
             THEN <<".">> \o PadChars(x.num % Pow10(x.scale), x.scale)
             ELSE <<>>)

----------------------------------------------------------------------------
(* Replies to the caller and what a handler segment ends with *)

MONEYUNIFY_API_URL == <<"https://api.moneyunify.one">>

\* res.status(status).json({isError, message, data, error}); JSON leaves out
\* the keys whose value is undefined
Reply(status, isError, message, data, error) ==
    [status |-> status, isError |-> isError, message |-> message,
     data |-> data, error |-> error]

\* a handler segment ends by replying, by throwing, or at the await of fetch
Respond(reply) == [kind |-> "respond", reply |-> reply]
Throw(message) == [kind |-> "throw", error |-> message]
Fetch(path, form) == [kind |-> "fetch", path |-> path, form |-> form]

\* the detail kept back in production only:
\* process.env.NODE_ENV !== 'production' ? error.message : 'An error occurred'
ErrorDetail_UnlessProduction(env, message) ==
    IF env # S(<<"production">>) THEN S(<<message>>)
    ELSE S(<<"An error occurred">>)

\* process.env.NODE_ENV === 'development' ? error.message : 'An error occurred'
ErrorDetail(env, message) ==
    IF env = S(<<"development">>) THEN S(<<message>>)
    ELSE S(<<"An error occurred">>)

\* the catch block without its status: res.json({...}) replies with 200
CatchReply_NoStatus(env, message) ==
    Reply(200, TRUE, S(<<"Internal server error">>), UNDEFINED,
          IF env = S(<<"development">>) THEN S(<<message>>)
          ELSE S(<<"An error occurred">>))

\* the catch block of either handler
CatchReply(env, message) ==
    Reply(500, TRUE, S(<<"Internal server error">>), UNDEFINED,
          ErrorDetail(env, message))

\* the Express error handler, app.use((err, req, res, next) => ...)
ErrorHandlerReply(env, message) ==
    Reply(500, TRUE, S(<<"Internal server error">>), UNDEFINED,
          ErrorDetail(env, message))

\* the check against the empty string only: if (MONEYUNIFY_AUTH_ID === '')
NotConfigured_OnlyEmpty(authId) == authId = S(<<>>)

\* the check shared by both handlers: if (!MONEYUNIFY_AUTH_ID)
NotConfigured(authId) == ~Truthy(authId)

ConfigErrorReply ==
    Reply(500, TRUE,
          S(<<"Payment service not configured. Please contact support.">>),
          UNDEFINED, UNDEFINED)

----------------------------------------------------------------------------
(* POST /create-mobile-money-payment *)

\* the log line of the request: from_payer.substring(...) is evaluated
\* whenever from_payer is truthy, and exists only on strings
LogPaymentRequestThrows(from_payer) ==
    Truthy(from_payer) /\ ~HasSubstring(from_payer)

\* if (!from_payer || !amount)
MissingFields(from_payer, amount) == ~Truthy(from_payer) \/ ~Truthy(amount)

\* the form sent to /payments/request
CreateForm(from_payer, parsedAmount, authId) ==
    [from_payer |-> JsToString(from_payer),
     amount |-> NumberToString(parsedAmount),
     auth_id |-> JsToString(authId),
     webhook_url |-> <<>>]

\* the handler from its start to the await of fetch
CreateHandler(reqBody, authId) ==
    LET from_payer == reqBody.from_payer
        amount == reqBody.amount
        parsedAmount == ParseFloat(amount)
    IN  IF LogPaymentRequestThrows(from_payer)
        THEN Throw("from_payer.substring is not a function")
        ELSE IF MissingFields(from_payer, amount)
        THEN Respond(Reply(400, TRUE,
                 S(<<"Missing required fields: from_payer or amount">>),
                 UNDEFINED, UNDEFINED))
        ELSE IF ~PhoneRegexTest(from_payer)
        THEN Respond(Reply(400, TRUE,
                 S(<<"Invalid phone number format. Must be 10 digits (e.g., 0971234567)">>),
                 UNDEFINED, UNDEFINED))
        ELSE IF AmountRejected(parsedAmount)
        THEN Respond(Reply(400, TRUE,
                 S(<<"Invalid amount. Must be a positive number.">>),
                 UNDEFINED, UNDEFINED))
        ELSE IF NotConfigured(authId)
        THEN Respond(ConfigErrorReply)
        ELSE Fetch("/payments/request",
                   CreateForm(from_payer, parsedAmount, authId))

\* data.message || 'Payment initiation failed'
ProviderErrorMessage(data) ==
    IF Truthy(GetProp(data, "message")) THEN GetProp(data, "message")
    ELSE S(<<"Payment initiation failed">>)

\* the check without the HTTP status: if (data.isError)
ProviderFailed_IgnoresStatus(data, ok) == Truthy(GetProp(data, "isError"))

\* if (data.isError || !response.ok)
ProviderFailed(data, ok) == Truthy(GetProp(data, "isError")) \/ ~ok

\* the handler after  data = await response.json()
CreateTranslate(data, ok) ==
    IF ~CanReadProps(data)
    THEN Throw("Cannot read properties of null (reading 'isError')")
    ELSE IF ProviderFailed(data, ok)
    THEN Respond(Reply(400, TRUE, ProviderErrorMessage(data),
                       UNDEFINED, UNDEFINED))
    \* the log line reads data.data.transaction_id
    ELSE IF ~CanReadProps(GetProp(data, "data"))
    THEN Throw("Cannot read properties of undefined (reading 'transaction_id')")
    ELSE Respond(Reply(200, FALSE, GetProp(data, "message"),
                       GetProp(data, "data"), UNDEFINED))

----------------------------------------------------------------------------
(* POST /verify-mobile-money-payment *)

\* the form sent to /payments/verify
VerifyForm(transaction_id, authId) ==
    [auth_id |-> JsToString(authId),
     transaction_id |-> JsToString(transaction_id)]

\* the handler from its start to the await of fetch
VerifyHandler(reqBody, authId) ==
    LET transaction_id == reqBody.transaction_id
    IN  IF ~Truthy(transaction_id)
        THEN Respond(Reply(400, TRUE,
                 S(<<"Missing required field: transaction_id">>),
                 UNDEFINED, UNDEFINED))
        ELSE IF NotConfigured(authId)
        THEN Respond(ConfigErrorReply)
        ELSE Fetch("/payments/verify", VerifyForm(transaction_id, authId))

\* the verify handler with the create handler's check of the error flag
VerifyTranslate_ChecksErrorFlag(data) ==
    IF ~CanReadProps(data)
    THEN Throw("Cannot read properties of null (reading 'isError')")
    ELSE IF Truthy(GetProp(data, "isError"))
    THEN Respond(Reply(400, TRUE, ProviderErrorMessage(data),
                       UNDEFINED, UNDEFINED))
    ELSE Respond(Reply(200, FALSE, GetProp(data, "message"),
                       GetProp(data, "data"), UNDEFINED))

\* the handler after  data = await response.json(): the log line reads
\* data.data?.status, then the reply passes message and data through
VerifyTranslate(data) ==
    IF ~CanReadProps(data)
    THEN Throw("Cannot read properties of null (reading 'data')")
    ELSE Respond(Reply(200, FALSE, GetProp(data, "message"),
                       GetProp(data, "data"), UNDEFINED))

----------------------------------------------------------------------------
(* The provider's response, as fetch hands it to the handler *)

\* the check that lets an absent header through:
\* !contentType || contentType.includes('application/json')
IsJsonContentType_AbsentPasses(contentType) ==
    ~Truthy(contentType) \/ Includes(contentType.chars, <<"application/json">>)

\* response.headers.get('content-type') is null when the header is absent
\* contentType && contentType.includes('application/json')
IsJsonContentType(contentType) ==
    Truthy(contentType) /\ Includes(contentType.chars, <<"application/json">>)

\* a body that JSON.parse rejects
UNPARSEABLE == [type |-> "unparseable"]

----------------------------------------------------------------------------
(* The inputs tried *)

\* strings of up to MaxStrLen characters: all "0", or all "0" but for a "7"
\* or an "a" in the first or the last place
PhoneStrings ==
    UNION { { [i \in 1..n |-> IF i = k THEN c ELSE "0"] :
              k \in {0, 1, n}, c \in {"7", "a"} } : n \in 0..MaxStrLen }

TenSevens == [i \in 1..PhoneLen |-> "7"]

FromPayerValues ==
    {S(p) : p \in PhoneStrings}
    \cup {UNDEFINED, NULL, N(<<"0">>), N(<<"9", "7", "1">>), N(TenSevens),
          B(TRUE), A(S(TenSevens))}

AmountAlphabet == {"0", "1", "-", ".", "a"}

AmountStrings ==
    UNION {[1..n -> AmountAlphabet] : n \in 0..MaxAmountLen}
    \cup {<<"5", "0", ".", "0", "0">>, <<"1", "2", "a", "b", "c">>,
          <<" ", "5">>, <<"+", "5">>, <<"a", "b", "c">>}

AmountValues ==
    {S(a) : a \in AmountStrings}
    \cup {UNDEFINED, NULL, N(<<"0">>), N(<<"5", "0">>), N(<<"-", "5">>),
          B(TRUE), A(N(<<"5", "0">>))}

TransactionIdValues ==
    {UNDEFINED, NULL, S(<<>>), S(<<"T1">>), N(<<"0">>), N(<<"4", "2">>)}

\* req.body after express.json(): the keys the handlers read
CreateBodies ==
    [from_payer : FromPayerValues, amount : AmountValues,
     transaction_id : {UNDEFINED}]

VerifyBodies ==
    [from_payer : {UNDEFINED}, amount : {UNDEFINED},
     transaction_id : TransactionIdValues]

\* a request whose body express.json() could not parse
MALFORMED == [malformed |-> TRUE]

AuthIdValues == {UNDEFINED, S(<<>>), S(<<"AUTH">>)}

NodeEnvValues == {UNDEFINED, S(<<"production">>), S(<<"development">>)}

ContentTypes ==
    {NULL, S(<<"application/json">>),
     S(<<"application/json", "; charset=utf-8">>),
     S(<<"text/html">>), S(<<"application/json", "-seq">>)}

DataValues ==
    {UNDEFINED, NULL,
     [type |-> "object", transaction_id |-> UNDEFINED, status |-> UNDEFINED],
     [type |-> "object", transaction_id |-> S(<<"T1">>),
      status |-> S(<<"completed">>)]}

ProviderObjects ==
    [type : {"object"},
     isError : {UNDEFINED, B(FALSE), B(TRUE)},
     message : {UNDEFINED, S(<<>>), S(<<"X">>)},
     data : DataValues]

ProviderBodies == ProviderObjects \cup {NULL, S(<<"ok">>), UNPARSEABLE}

ProviderResponses ==
    [ok : BOOLEAN, contentType : ContentTypes, body : ProviderBodies]

\* the inputs of SpecConcurrent: one request of each outcome
ValidCreateBody ==
    [from_payer |-> S([i \in 1..PhoneLen |-> "0"]),
     amount |-> S(<<"5", "0", ".", "0", "0">>), transaction_id |-> UNDEFINED]

ConcurrentCreateBodies ==
    {ValidCreateBody,
     [ValidCreateBody EXCEPT !.from_payer = S(TenSevens)],
     [ValidCreateBody EXCEPT !.amount = S(<<"0">>)]}

ConcurrentVerifyBodies ==
    {b \in VerifyBodies : b.transaction_id \in {UNDEFINED, S(<<"T1">>)}}

ConcurrentProviderResponses ==
    {p \in ProviderResponses :
        /\ p.ok
        /\ p.contentType \in {S(<<"application/json">>), S(<<"text/html">>)}
        /\ p.body \in ProviderObjects
        /\ p.body.message = S(<<"X">>)
        /\ p.body.isError \in {B(FALSE), B(TRUE)}
        /\ CanReadProps(p.body.data) /\ Truthy(p.body.data.status)}

----------------------------------------------------------------------------
(* The state machine *)

NONE == [type |-> "none"]

InitOver(requestIds, authIds, nodeEnvs) ==
    /\ MONEYUNIFY_AUTH_ID \in authIds
    /\ NODE_ENV \in nodeEnvs
    /\ pc = [r \in requestIds |-> "idle"]
    /\ endpoint = [r \in requestIds |-> "none"]
    /\ body = [r \in requestIds |-> NONE]
    /\ response = [r \in requestIds |-> NONE]
    /\ sent = [r \in requestIds |-> <<>>]
    /\ caught = [r \in requestIds |-> <<>>]
    /\ trace = [r \in requestIds |-> <<>>]
    /\ calls = <<>>

Requests == DOMAIN pc

\* the call issued a second time
IssueFetch_Twice(log, r, path, form) ==
    LET call == [rid |-> r, url |-> MONEYUNIFY_API_URL \o <<path>>,
                 form |-> form]
    IN  Append(Append(log, call), call)

\* fetch(`${MONEYUNIFY_API_URL}${path}`, {method: 'POST', ..., body: form})
IssueFetch(log, r, path, form) ==
    Append(log, [rid |-> r, url |-> MONEYUNIFY_API_URL \o <<path>>,
                 form |-> form])

\* the end of a handler segment of request r: a reply ends the request, an
\* exception goes to the catch block, which replies, and fetch suspends it
Continue(r, outcome) ==
    CASE outcome.kind = "respond" ->
            /\ sent' = [sent EXCEPT ![r] = Append(@, outcome.reply)]
            /\ trace' = [trace EXCEPT ![r] = Append(@, "respond")]
            /\ pc' = [pc EXCEPT ![r] = "done"]
            /\ UNCHANGED <<caught, calls>>
      [] outcome.kind = "throw" ->
            /\ caught' = [caught EXCEPT ![r] = Append(@, outcome.error)]
            /\ sent' = [sent EXCEPT ![r] =
                           Append(@, CatchReply(NODE_ENV, outcome.error))]
            /\ trace' = [trace EXCEPT ![r] = Append(@, "respond")]
            /\ pc' = [pc EXCEPT ![r] = "done"]
            /\ UNCHANGED calls
      [] outcome.kind = "fetch" ->
            /\ calls' = IssueFetch(calls, r, outcome.path, outcome.form)
            /\ trace' = [trace EXCEPT ![r] = Append(@, "call")]
            /\ pc' = [pc EXCEPT ![r] = "fetch"]
            /\ UNCHANGED <<sent, caught>>

\* a request arrives at /create-mobile-money-payment
ReceiveCreate(bodies) ==
    \E r \in Requests :
        /\ pc[r] = "idle"
        /\ \E reqBody \in bodies :
            /\ endpoint' = [endpoint EXCEPT ![r] = "create"]
            /\ body' = [body EXCEPT ![r] = reqBody]
            /\ Continue(r, CreateHandler(reqBody, MONEYUNIFY_AUTH_ID))
        /\ UNCHANGED <<MONEYUNIFY_AUTH_ID, NODE_ENV, response>>

\* a request arrives at /verify-mobile-money-payment
ReceiveVerify(bodies) ==
    \E r \in Requests :
        /\ pc[r] = "idle"
        /\ \E reqBody \in bodies :
            /\ endpoint' = [endpoint EXCEPT ![r] = "verify"]
            /\ body' = [body EXCEPT ![r] = reqBody]
            /\ Continue(r, VerifyHandler(reqBody, MONEYUNIFY_AUTH_ID))
        /\ UNCHANGED <<MONEYUNIFY_AUTH_ID, NODE_ENV, response>>

\* a request whose body express.json() rejects: the error handler replies
ReceiveMalformed(routes) ==
    \E r \in Requests, route \in routes :
        /\ pc[r] = "idle"
        /\ endpoint' = [endpoint EXCEPT ![r] = route]
        /\ body' = [body EXCEPT ![r] = MALFORMED]
        /\ caught' = [caught EXCEPT ![r] = Append(@, "Unexpected token in JSON")]
        /\ sent' = [sent EXCEPT ![r] =
                       Append(@, ErrorHandlerReply(NODE_ENV,
                                                   "Unexpected token in JSON"))]
        /\ trace' = [trace EXCEPT ![r] = Append(@, "respond")]
        /\ pc' = [pc EXCEPT ![r] = "done"]
        /\ UNCHANGED <<MONEYUNIFY_AUTH_ID, NODE_ENV, response, calls>>

\* fetch resolves with the provider's response; the handler reads the
\* content type and awaits response.json() or response.text()
FetchResolves(providerResponses) ==
    \E r \in Requests :
        /\ pc[r] = "fetch"
        /\ \E providerResponse \in providerResponses :
            /\ response' = [response EXCEPT ![r] = providerResponse]
            /\ pc' = [pc EXCEPT ![r] =
                         IF IsJsonContentType(providerResponse.contentType)
                         THEN "json" ELSE "text"]
        /\ trace' = [trace EXCEPT ![r] = Append(@, "settled")]
        /\ UNCHANGED <<MONEYUNIFY_AUTH_ID, NODE_ENV, endpoint, body, sent,
                       caught, calls>>

\* fetch rejects (no connection, time-out of the HTTP client): the catch
\* block replies
FetchRejects ==
    \E r \in Requests :
        /\ pc[r] = "fetch"
        /\ trace' = [trace EXCEPT ![r] = @ \o <<"settled", "respond">>]
        /\ caught' = [caught EXCEPT ![r] = Append(@, "fetch failed")]
        /\ sent' = [sent EXCEPT ![r] =
                       Append(@, CatchReply(NODE_ENV, "fetch failed"))]
        /\ pc' = [pc EXCEPT ![r] = "done"]
        /\ UNCHANGED <<MONEYUNIFY_AUTH_ID, NODE_ENV, endpoint, body, response,
                       calls>>

\* response.json() resolves in the create handler
CreateJsonResolves ==
    \E r \in Requests :
        /\ pc[r] = "json"
        /\ endpoint[r] = "create"
        /\ response[r].body # UNPARSEABLE
        /\ Continue(r, CreateTranslate(response[r].body, response[r].ok))
        /\ UNCHANGED <<MONEYUNIFY_AUTH_ID, NODE_ENV, endpoint, body, response>>

\* response.json() resolves in the verify handler
VerifyJsonResolves ==
    \E r \in Requests :
        /\ pc[r] = "json"
        /\ endpoint[r] = "verify"
        /\ response[r].body # UNPARSEABLE
        /\ Continue(r, VerifyTranslate(response[r].body))
        /\ UNCHANGED <<MONEYUNIFY_AUTH_ID, NODE_ENV, endpoint, body, response>>

\* response.json() rejects: the body is no JSON, or the connection broke
JsonRejects(messages) ==
    \E r \in Requests :
        /\ pc[r] = "json"
        /\ \E message \in messages :
            /\ \/ message = "terminated"
               \/ /\ message = "Unexpected token in JSON"
                  /\ response[r].body = UNPARSEABLE
            /\ Continue(r, Throw(message))
        /\ UNCHANGED <<MONEYUNIFY_AUTH_ID, NODE_ENV, endpoint, body, response>>

\* response.text() settles: resolved, the handler throws 'Invalid response
\* from payment provider'; rejected, the rejection is what the catch block sees
TextSettles(messages) ==
    \E r \in Requests :
        /\ pc[r] = "text"
        /\ \E message \in messages :
            /\ message \in {"Invalid response from payment provider",
                            "terminated"}
            /\ Continue(r, Throw(message))
        /\ UNCHANGED <<MONEYUNIFY_AUTH_ID, NODE_ENV, endpoint, body, response>>

ThrownMessages ==
    {"terminated", "Unexpected token in JSON",
     "Invalid response from payment provider"}

Init == InitOver({1}, AuthIdValues, NodeEnvValues)

Next ==
    \/ ReceiveCreate(CreateBodies)
    \/ ReceiveVerify(VerifyBodies)
    \/ ReceiveMalformed({"create", "verify"})
    \/ FetchResolves(ProviderResponses)
    \/ FetchRejects
    \/ CreateJsonResolves
    \/ VerifyJsonResolves
    \/ JsonRejects(ThrownMessages)
    \/ TextSettles(ThrownMessages)

Spec == Init /\ [][Next]_vars

\* MaxRequests requests in flight at once, over fewer inputs
InitConcurrent ==
    InitOver(1..MaxRequests, {UNDEFINED, S(<<"AUTH">>)}, {S(<<"production">>)})

NextConcurrent ==
    \/ ReceiveCreate(ConcurrentCreateBodies)
    \/ ReceiveVerify(ConcurrentVerifyBodies)
    \/ ReceiveMalformed({"create"})
    \/ FetchResolves(ConcurrentProviderResponses)
    \/ FetchRejects
    \/ CreateJsonResolves
    \/ VerifyJsonResolves
    \/ JsonRejects({"terminated"})
    \/ TextSettles({"Invalid response from payment provider"})

SpecConcurrent == InitConcurrent /\ [][NextConcurrent]_vars

----------------------------------------------------------------------------
(* What the claims speak of *)

Done(r) == pc[r] = "done"

TheReply(r) == sent[r][1]

CallsOf(r) == {i \in 1..Len(calls) : calls[i].rid = r}

\* the request came in with a body that express.json() parsed
Parsed(r) == endpoint[r] # "none" /\ body[r] # MALFORMED

\* exactly ten ASCII digits
IsTenDigitString(v) ==
    /\ v.type = "string"
    /\ Len(v.chars) = 10
    /\ \A i \in 1..Len(v.chars) : v.chars[i] \in Digits

\* HTTP 400, isError true, one of the handlers' own validation messages
ValidationMessages ==
    {S(<<"Missing required fields: from_payer or amount">>),
     S(<<"Invalid phone number format. Must be 10 digits (e.g., 0971234567)">>),
     S(<<"Invalid amount. Must be a positive number.">>),
     S(<<"Missing required field: transaction_id">>)}

IsValidationError(reply) ==
    /\ reply.status = 400
    /\ reply.isError = TRUE
    /\ reply.message \in ValidationMessages

IsConfigError(reply) ==
    /\ reply.status = 500
    /\ reply.isError = TRUE
    /\ reply.message =
          S(<<"Payment service not configured. Please contact support.">>)

IsInternalError(reply) ==
    /\ reply.status = 500
    /\ reply.isError = TRUE
    /\ reply.message = S(<<"Internal server error">>)

IsSuccess(reply) == reply.status = 200 /\ reply.isError = FALSE

\* a text that is a decimal numeral from end to end: an optional sign, then
\* digits with at most one point among them, and at least one digit
RECURSIVE TrimEnd(_)
TrimEnd(s) ==
    IF s # <<>> /\ s[Len(s)] \in WhiteSpace
    THEN TrimEnd(SubSeq(s, 1, Len(s) - 1)) ELSE s

Unsigned(s) == IF s # <<>> /\ Head(s) \in {"+", "-"} THEN Tail(s) ELSE s

IsNumeral(chars) ==
    LET u == Unsigned(TrimEnd(TrimStart(chars)))
    IN  /\ \A i \in 1..Len(u) : u[i] \in Digits \cup {"."}
        /\ Cardinality({i \in 1..Len(u) : u[i] = "."}) <= 1
        /\ \E i \in 1..Len(u) : u[i] \in Digits

\* the amount is a number, or a text that is a numeral
IsNumeric(v) ==
    \/ v.type = "number"
    \/ v.type = "string" /\ IsNumeral(v.chars)

\* a numeric amount that is zero or negative
IsNonPositive(v) ==
    /\ IsNumeric(v)
    /\ LET t == TrimStart(v.chars)
       IN  \/ t # <<>> /\ Head(t) = "-"
           \/ \A i \in 1..Len(t) : t[i] \in Digits => t[i] = "0"

----------------------------------------------------------------------------
(* C1: every from_payer that is not exactly ten ASCII digits, a number or    *)
(* another value that is no string included, is answered by InitiatePayment *)
(* with a validation error (HTTP 400, isError true), and no call to the     *)
(* provider is issued for that request.                                     *)
C1_InvalidPayerIsValidationError ==
    \A r \in Requests :
        (endpoint[r] = "create" /\ Parsed(r)
         /\ ~IsTenDigitString(body[r].from_payer))
        => /\ CallsOf(r) = {}
           /\ Done(r) => IsValidationError(TheReply(r))

(* C2: with a valid from_payer, every amount that is not numeric (a text    *)
(* with a numeric prefix such as "12abc" included) or that is <= 0 is       *)
(* answered with a validation error, and the provider is not called.        *)
C2_InvalidAmountIsValidationError ==
    \A r \in Requests :
        (endpoint[r] = "create" /\ Parsed(r)
         /\ IsTenDigitString(body[r].from_payer)
         /\ (~IsNumeric(body[r].amount) \/ IsNonPositive(body[r].amount)))
        => /\ CallsOf(r) = {}
           /\ Done(r) => IsValidationError(TheReply(r))

\* the request got past every validation check of its handler
PassesValidation(r) ==
    /\ Parsed(r)
    /\ \/ /\ endpoint[r] = "create"
          /\ IsTenDigitString(body[r].from_payer)
          /\ Truthy(body[r].amount)
          /\ ~AmountRejected(ParseFloat(body[r].amount))
       \/ /\ endpoint[r] = "verify"
          /\ Truthy(body[r].transaction_id)

SecretUnset == MONEYUNIFY_AUTH_ID = UNDEFINED

(* C3, as stated: with the provider secret unset, every request to either  *)
(* operation is answered with the configuration error (HTTP 500, isError   *)
(* true, 'Payment service not configured'), and no call to the provider is *)
(* ever issued.                                                            *)
C3_UnsetSecretAlwaysConfigError ==
    SecretUnset =>
        /\ calls = <<>>
        /\ \A r \in Requests : Done(r) => IsConfigError(TheReply(r))

(* C3, amended: with the provider secret unset, no call to the provider is *)
(* ever issued, and a request is answered with the configuration error     *)
(* exactly when it passed its handler's validation checks; a request that  *)
(* fails them is answered with its validation or internal error instead.   *)
C3_UnsetSecretConfigErrorAfterValidation ==
    SecretUnset =>
        /\ calls = <<>>
        /\ \A r \in Requests :
              Done(r) =>
                 /\ Len(sent[r]) = 1
                 /\ PassesValidation(r) <=> IsConfigError(TheReply(r))
                 /\ PassesValidation(r) => TheReply(r) = ConfigErrorReply
                 /\ ~PassesValidation(r) =>
                       \/ IsValidationError(TheReply(r))
                       \/ IsInternalError(TheReply(r))

\* a valid InitiatePayment request was answered with the configuration error
C3_Witness ==
    /\ SecretUnset
    /\ \E r \in Requests :
          /\ Done(r)
          /\ PassesValidation(r)
          /\ endpoint[r] = "create"
          /\ TheReply(r) = ConfigErrorReply

\* the provider sent a JSON body that the handler received and parsed: a
\* JSON value that can have a message and a data, which is any but null
ParsedJson(r) ==
    /\ Done(r)
    /\ response[r] # NONE
    /\ response[r].body \notin {UNPARSEABLE, NULL}
    /\ trace[r] = <<"call", "settled", "respond">>
    /\ \A i \in 1..Len(caught[r]) :
          caught[r][i] \notin {"terminated", "Invalid response from payment provider"}

\* the content-type header names JSON: it holds the media type application/json
NamesJson(contentType) ==
    /\ contentType.type = "string"
    /\ \E i \in 1..Len(contentType.chars) :
          contentType.chars[i] = "application/json"

ReportsFailure(r) ==
    Truthy(GetProp(response[r].body, "isError")) \/ ~response[r].ok

C6_SuccessPassesThrough ==
    \A r \in Requests :
        (endpoint[r] = "create" /\ ParsedJson(r)
         /\ response[r].body \in ProviderObjects
         /\ ~ReportsFailure(r))
        => TheReply(r) =
              Reply(200, FALSE, response[r].body.message,
                    response[r].body.data, UNDEFINED)

GenericDetail == S(<<"An error occurred">>)

\* the uniform envelope: an error with status 400 or 500, a message and no
\* data, or a success with status 200 and no error detail
IsEnvelope(reply) ==
    /\ reply.isError \in BOOLEAN
    /\ reply.isError =>
          /\ reply.status \in {400, 500}
          /\ reply.message.type = "string" /\ reply.message.chars # <<>>
          /\ reply.data = UNDEFINED
    /\ ~reply.isError =>
          /\ reply.status = 200
          /\ reply.error = UNDEFINED

(* C8: every request to either payment endpoint ends with exactly one      *)
(* reply, and the reply is the uniform envelope: a failure at any step     *)
(* (validation, configuration, the outbound call, a body that is no JSON,  *)
(* an exception while translating the provider's body) is caught and       *)
(* becomes an isError: true envelope with status 400 or 500; no request    *)
(* ends without a reply, with an uncaught exception, or with a reply that  *)
(* is both a success and an error; a request under way can always go on.   *)
C8_OneEnvelopePerRequest ==
    \A r \in Requests :
        /\ Len(sent[r]) <= 1
        /\ Done(r) <=> Len(sent[r]) = 1
        /\ Len(caught[r]) <= 1
        /\ caught[r] # <<>> => Done(r) /\ IsInternalError(TheReply(r))
        /\ pc[r] \in {"fetch", "json", "text"} => ENABLED Next
        /\ Done(r) =>
              /\ IsEnvelope(TheReply(r))
              /\ IsSuccess(TheReply(r)) =>
                    /\ caught[r] = <<>>
                    /\ PassesValidation(r)
                    /\ Truthy(MONEYUNIFY_AUTH_ID)
                    /\ ParsedJson(r)
                    /\ ~TheReply(r).isError
              /\ ~IsSuccess(TheReply(r)) =>
                    /\ TheReply(r).isError
                    /\ TheReply(r).status \in {400, 500}

\* the log line of a provider success threw, and the caller got the
\* internal-error envelope
C8_Witness ==
    \E r \in Requests :
        /\ Done(r)
        /\ endpoint[r] = "create"
        /\ ParsedJson(r)
        /\ ~ReportsFailure(r)
        /\ caught[r] # <<>>
        /\ Len(sent[r]) = 1
        /\ IsInternalError(TheReply(r))

(* C9: unless NODE_ENV is 'development', the internal-error reply of both  *)
(* operations and of the error handler is one fixed reply with the generic *)
(* detail, the same whatever exception occurred; the message of an         *)
(* exception is in a reply only when NODE_ENV is 'development'.            *)
C9_DetailOnlyInDevelopment ==
    \A r \in Requests :
        Done(r) =>
            /\ (NODE_ENV # S(<<"development">>) /\ IsInternalError(TheReply(r)))
               => TheReply(r) =
                     Reply(500, TRUE, S(<<"Internal server error">>),
                           UNDEFINED, GenericDetail)
            /\ TheReply(r).error \notin {UNDEFINED, GenericDetail}
               => /\ NODE_ENV = S(<<"development">>)
                  /\ caught[r] # <<>>
                  /\ TheReply(r).error = S(<<caught[r][1]>>)
            /\ caught[r] # <<>> =>
                  \/ NODE_ENV = S(<<"development">>)
                  \/ TheReply(r).error # S(<<caught[r][1]>>)

\* an exception was caught with NODE_ENV unset and the reply holds the
\* generic detail
C9_Witness ==
    \E r \in Requests :
        /\ Done(r)
        /\ NODE_ENV = UNDEFINED
        /\ caught[r] = <<"Invalid response from payment provider">>
        /\ TheReply(r).error = GenericDetail

\* the path of the provider that an operation calls
PathOf(route) ==
    IF route = "create" THEN "/payments/request" ELSE "/payments/verify"

\* the request passed its validation and the configuration check
PassesChecks(r) == PassesValidation(r) /\ Truthy(MONEYUNIFY_AUTH_ID)

(* C10: a request that passes validation and the configuration check       *)
(* issues exactly one call to the provider, to /payments/request for       *)
(* InitiatePayment and /payments/verify for VerifyPayment, and no other    *)
(* request issues any; the call is issued after the checks, the reply is   *)
(* sent after the call has resolved or failed, and there is no second      *)
(* call, also when the call fails or the provider reports an error; with   *)
(* requests interleaved, a call carries the data of the request that       *)
(* issued it.                                                              *)
C10_ExactlyOneCall ==
    /\ Len(calls) = Cardinality({r \in Requests : CallsOf(r) # {}})
    /\ \A r \in Requests :
          /\ Cardinality(CallsOf(r)) <= 1
          /\ endpoint[r] # "none" => (PassesChecks(r) <=> CallsOf(r) # {})
          /\ trace[r] \in {<<>>, <<"respond">>, <<"call">>,
                           <<"call", "settled">>,
                           <<"call", "settled", "respond">>}
          /\ CallsOf(r) # {} <=> (trace[r] # <<>> /\ trace[r][1] = "call")
          /\ response[r] # NONE => CallsOf(r) # {}
          /\ \A i \in CallsOf(r) :
                /\ calls[i].url = <<"https://api.moneyunify.one",
                                    PathOf(endpoint[r])>>
                /\ calls[i].form.auth_id = MONEYUNIFY_AUTH_ID.chars
                /\ endpoint[r] = "create" =>
                      calls[i].form.from_payer = body[r].from_payer.chars
                /\ endpoint[r] = "verify" =>
                      calls[i].form.transaction_id = body[r].transaction_id.chars

\* two requests were under way at once, one of each operation; one call
\* failed and the provider reported an error on the other; each issued one call
C10_Witness ==
    \E r1, r2 \in Requests :
        /\ r1 # r2
        /\ Done(r1) /\ Done(r2)
        /\ endpoint[r1] = "create" /\ endpoint[r2] = "verify"
        /\ Len(calls) = 2
        /\ calls[1].rid = r2 /\ calls[2].rid = r1
        /\ caught[r2] = <<"fetch failed">>
        /\ TheReply(r1).status = 400
        /\ response[r1] # NONE /\ response[r1].body.isError = B(TRUE)

====
